---- MODULE Spec2Model ----
(***************************************************************************)
(* Model of xarray_rrepr.wrap: the sampler (random_sample_dims,            *)
(* random_sample_xarray_obj), the renderer (round_float_array, deparse_*,  *)
(* xarray_rrepr_template, ruff_format) and the entry point rrepr.          *)
(*                                                                         *)
(* Conventions.                                                            *)
(*  - An ordered Python dict is a sequence of records, in insertion order. *)
(*  - An optional value is a sequence of length <= 1 (<<>> is None).       *)
(*  - A nested Python list / numpy array payload is a record holding a     *)
(*    nested sequence, its container, its depth and its element type.      *)
(*  - A float is a fixed-point integer with Digits decimal digits          *)
(*    (279.79 is 27979 when Digits = 2).                                   *)
(*  - Indices are 0-based as in numpy; sequences are 1-based as in TLA+.   *)
(*  - Text is a sequence of string tokens.                                 *)
(***************************************************************************)
EXTENDS Integers, Sequences, FiniteSets, TLC

\* ------------------------------------------------------------------ bounds
MaxExtent == 2      \* largest extent of a dimension of a source object
MaxSize == 3        \* largest requested sample size (exceeds MaxExtent)
Digits == 2         \* decimal digits kept by the fixed-point floats
DefaultNdigits == 1 \* round_float_array(arr, ndigits=1)

\* ----------------------------------------------------------------- helpers
Min(a, b) == IF a < b THEN a ELSE b

RECURSIVE Pow10(_)
Pow10(n) == IF n <= 0 THEN 1 ELSE 10 * Pow10(n - 1)

\* --------------------------------------------------------- source objects
\* obj.sizes: ordered mapping dimension name -> extent
SizesKeys(obj) == [i \in DOMAIN obj.sizes |-> obj.sizes[i].name]
\* the extents listed from the last dimension to the first
SizesValuesReversed(obj) ==
    [i \in DOMAIN obj.sizes |-> obj.sizes[Len(obj.sizes) + 1 - i].n]
SizesValues(obj) == [i \in DOMAIN obj.sizes |-> obj.sizes[i].n]

XarrayKinds == {"DataArray", "Dataset"}

\* 1-D coordinate variable of a dimension: int labels 0..n-1 (np.arange)
ArangeCoord(d, n) ==
    [name |-> d, dims |-> <<d>>, dtype |-> "int", data |-> [i \in 1..n |-> i - 1]]

\* 1-D float coordinate 10.25, 12.80, 15.35, ... (fixed point, Digits = 2 scale)
FloatCoord(d, n) ==
    [name |-> d, dims |-> <<d>>, dtype |-> "float",
     data |-> [i \in 1..n |-> (1025 + 255 * (i - 1)) * Pow10(Digits - 2)]]

\* timestamp coordinate (pd.to_datetime): elements are opaque day numbers
TimeCoord(d, n) ==
    [name |-> d, dims |-> <<d>>, dtype |-> "datetime64",
     data |-> [i \in 1..n |-> 19000 + 7 * i]]

AllAttrs == {"sizes", "isel", "to_dict", "coords"}

\* the tests' make_array: an e1 x e2 integer grid 1..e1*e2 over dims a, b
Grid(e1, e2) ==
    [kind |-> "DataArray", attrs |-> AllAttrs,
     sizes |-> << [name |-> "a", n |-> e1], [name |-> "b", n |-> e2] >>,
     vars |-> << [name |-> "", dims |-> <<"a", "b">>, dtype |-> "int",
                  data |-> [i \in 1..e1 |-> [j \in 1..e2 |-> (i - 1) * e2 + j]]] >>,
     coords |-> << ArangeCoord("a", e1), ArangeCoord("b", e2) >>]

\* a 1-D float DataArray over a timestamp dimension
Line(e) ==
    [kind |-> "DataArray", attrs |-> AllAttrs,
     sizes |-> << [name |-> "time", n |-> e] >>,
     vars |-> << [name |-> "", dims |-> <<"time">>, dtype |-> "float",
                  data |-> [i \in 1..e |-> (27979 - 1234 * (i - 1)) * Pow10(Digits - 2)]] >>,
     coords |-> << TimeCoord("time", e) >>]

\* a Dataset: float "air" over (lat, lon) and an int variable named "array"
\* over (lat)
Cube(e1, e2) ==
    [kind |-> "Dataset", attrs |-> AllAttrs,
     sizes |-> << [name |-> "lat", n |-> e1], [name |-> "lon", n |-> e2] >>,
     vars |-> << [name |-> "air", dims |-> <<"lat", "lon">>, dtype |-> "float",
                  data |-> [i \in 1..e1 |->
                              [j \in 1..e2 |-> (27315 + 1005 * i - 335 * j) * Pow10(Digits - 2)]]],
                 [name |-> "array", dims |-> <<"lat">>, dtype |-> "int",
                  data |-> [i \in 1..e1 |-> 10 * i]] >>,
     coords |-> << FloatCoord("lat", e1), FloatCoord("lon", e2) >>]

\* a float DataArray over (time, lat): dimension names that are not in
\* alphabetical order
Slab(e1, e2) ==
    [kind |-> "DataArray", attrs |-> AllAttrs,
     sizes |-> << [name |-> "time", n |-> e1], [name |-> "lat", n |-> e2] >>,
     vars |-> << [name |-> "", dims |-> <<"time", "lat">>, dtype |-> "float",
                  data |-> [i \in 1..e1 |->
                              [j \in 1..e2 |-> (27290 + 689 * j - 130 * i) * Pow10(Digits - 2)]]] >>,
     coords |-> << TimeCoord("time", e1), FloatCoord("lat", e2) >>]

\* objects that are neither xr.DataArray nor xr.Dataset
\* a Python list: no .sizes attribute
ListObj ==
    [kind |-> "list", attrs |-> {}, sizes |-> <<>>, vars |-> <<>>, coords |-> <<>>]
\* an xr.Variable: has sizes, isel and to_dict, but its dict has no "coords"
VariableObj ==
    [kind |-> "Variable", attrs |-> {"sizes", "isel", "to_dict"},
     sizes |-> << [name |-> "a", n |-> 2] >>,
     vars |-> << [name |-> "", dims |-> <<"a">>, dtype |-> "int", data |-> <<7, 8>>] >>,
     coords |-> <<>>]
\* a duck-typed object offering the whole interface rrepr uses
DuckObj ==
    [kind |-> "Duck", attrs |-> AllAttrs,
     sizes |-> << [name |-> "a", n |-> 2] >>,
     vars |-> << [name |-> "", dims |-> <<"a">>, dtype |-> "int", data |-> <<7, 8>>] >>,
     coords |-> << ArangeCoord("a", 2) >>]

Objects ==
    {Grid(1, MaxExtent), Grid(MaxExtent, MaxExtent), Line(MaxExtent), Cube(MaxExtent, 1)}
        \cup {Line(0), Slab(1, MaxExtent)}
        \cup {ListObj, VariableObj, DuckObj}

\* ---------------------------------------------------------------- results
NoError == [type |-> "", msg |-> ""]
Ok(v) == [ok |-> TRUE, val |-> v, err |-> NoError]
Raise(t, m) == [ok |-> FALSE, val |-> <<>>, err |-> [type |-> t, msg |-> m]]

\* ----------------------------------------------------------------- sampler
\* SeedSequence(seed): an explicit seed is the entropy; seed=None pulls fresh
\* entropy from the operating system
SeedSequenceAmbient(seed, entropy) == entropy
SeedSequence(seed, entropy) == IF seed = <<>> THEN entropy ELSE seed[1]

\* MT19937(seq), RandomState(bit_generator): a generator private to the call,
\* its state a function of the seed sequence alone.  The Mersenne Twister is
\* stood in for by a full-period multiplicative generator modulo 31.
MT19937(entropy) == ((entropy * 7 + 5) % 30) + 1
NextState(s) == (3 * s) % 31

RECURSIVE StateAt(_, _)
\* generator state after k draws
StateAt(s, k) == IF k = 0 THEN s ELSE StateAt(NextState(s), k - 1)

\* rng.randint(low, size=shape) with high=None: every element is drawn from
\* [0, low) on its own; low of shape (ndims, 1) broadcasts along each row;
\* elements are filled in row-major order; an empty interval [0, low) is
\* refused with ValueError before anything is drawn
RandintRefuses(max_id) == \E d \in DOMAIN max_id : max_id[d] <= 0
RandintInclusive(s, max_id, size) ==
    [d \in DOMAIN max_id |->
        [j \in 1..size |-> StateAt(s, (d - 1) * size + j) % (max_id[d] + 1)]]
RandintClamped(s, max_id, size) ==
    [d \in DOMAIN max_id |->
        [j \in 1..Min(size, max_id[d]) |-> StateAt(s, (d - 1) * size + j) % max_id[d]]]
Randint(s, max_id, size) ==
    [d \in DOMAIN max_id |->
        [j \in 1..size |-> StateAt(s, (d - 1) * size + j) % max_id[d]]]

\* a sampler that refuses to draw more indices than a dimension has
RandomSampleDimsChecked(obj, size, seed, entropy) ==
    LET rng == MT19937(SeedSequence(seed, entropy))
    IN  IF "sizes" \notin obj.attrs
        THEN Raise("AttributeError", "sizes")
        ELSE IF RandintRefuses(SizesValues(obj))
        THEN Raise("ValueError", "high <= 0")
        ELSE IF \E d \in DOMAIN obj.sizes : size > obj.sizes[d].n
        THEN Raise("ValueError", "Cannot take a larger sample than population")
        ELSE Ok(Randint(rng, SizesValues(obj), size))
\* random_sample_dims(obj, size, seed)
RandomSampleDims(obj, size, seed, entropy) ==
    LET rng == MT19937(SeedSequence(seed, entropy))
    IN  IF "sizes" \notin obj.attrs
        THEN Raise("AttributeError", "sizes")
        ELSE IF RandintRefuses(SizesValues(obj))
        THEN Raise("ValueError", "high <= 0")
        ELSE Ok(Randint(rng, SizesValues(obj), size))

\* dict(zip(obj.sizes.keys(), indices, strict=True))
ZipSwapped(keys, indices) ==
    [i \in DOMAIN keys |-> [name |-> keys[i], idx |-> indices[Len(keys) + 1 - i]]]
Zip(keys, indices) ==
    [i \in DOMAIN keys |-> [name |-> keys[i], idx |-> indices[i]]]

\* indices_dict[d]
Lookup(indices_dict, d) ==
    (CHOOSE i \in DOMAIN indices_dict : indices_dict[i].name = d)

RECURSIVE IselData(_, _, _)
\* orthogonal (outer) indexing of a nested payload along its own dims
IselData(data, dims, indices_dict) ==
    IF dims = <<>> THEN data
    ELSE LET idx == indices_dict[Lookup(indices_dict, Head(dims))].idx
         IN  [k \in DOMAIN idx |-> IselData(data[idx[k] + 1], Tail(dims), indices_dict)]

IselVar(v, indices_dict) == [v EXCEPT !.data = IselData(v.data, v.dims, indices_dict)]

\* obj.isel(indices_dict): a new object of the same kind, every variable and
\* coordinate indexed along the dimensions it has
Isel(obj, indices_dict) ==
    [obj EXCEPT
        !.sizes = [i \in DOMAIN obj.sizes |->
                      [name |-> obj.sizes[i].name,
                       n |-> Len(indices_dict[Lookup(indices_dict, obj.sizes[i].name)].idx)]],
        !.vars = [i \in DOMAIN obj.vars |-> IselVar(obj.vars[i], indices_dict)],
        !.coords = [i \in DOMAIN obj.coords |-> IselVar(obj.coords[i], indices_dict)]]

\* what obj.isel leaves of the object it is called on: isel returns a new
\* object and does not write to its receiver
IselInPlace(obj, indices_dict) == Isel(obj, indices_dict)
SourceAfterIsel(obj, indices_dict) == obj

\* random_sample_xarray_obj(obj, size, seed)
RandomSampleXarrayObj(obj, size, seed, entropy) ==
    LET indices == RandomSampleDims(obj, size, seed, entropy)
    IN  IF ~indices.ok THEN indices
        ELSE IF "isel" \notin obj.attrs THEN Raise("AttributeError", "isel")
        ELSE Ok(Isel(obj, Zip(SizesKeys(obj), indices.val)))

\* ---------------------------------------------------------------- renderer
\* to_dict() of one variable: data becomes a nested list; datetime64 values
\* become datetime.datetime objects
ToDictVar(v) ==
    [name |-> v.name, dims |-> v.dims,
     data |-> [container |-> "list",
               dtype |-> IF v.dtype = "datetime64" THEN "object" ELSE v.dtype,
               ndim |-> Len(v.dims), data |-> v.data]]

\* obj.to_dict(): {"coords": {...}, "data": ...} for a DataArray,
\* {"coords": {...}, "data_vars": {...}} for a Dataset
ToDict(obj) ==
    [coords |-> [i \in DOMAIN obj.coords |-> ToDictVar(obj.coords[i])],
     data_vars |-> [i \in DOMAIN obj.vars |-> ToDictVar(obj.vars[i])],
     data |-> IF obj.vars = <<>> THEN <<>> ELSE ToDictVar(obj.vars[1]).data]

\* np.asarray(arr): a nested list becomes an ndarray of the dtype numpy infers
\* from its elements; an ndarray is returned as it is
NpAsarray(arr) == [arr EXCEPT !.container = "ndarray"]

\* rint(x * 10^n) / 10^n on fixed-point x, ties to even; \div rounds down
RoundHalfEven(v, n) ==
    LET q == Pow10(Digits - n)
        f == v \div q
        r == v - f * q
    IN  IF n >= Digits THEN v
        ELSE IF 2 * r < q THEN f * q
        ELSE IF 2 * r > q THEN (f + 1) * q
        ELSE IF f % 2 = 0 THEN f * q ELSE (f + 1) * q

RECURSIVE MapRound(_, _, _)
MapRound(data, ndim, n) ==
    IF ndim = 0 THEN RoundHalfEven(data, n)
    ELSE [i \in DOMAIN data |-> MapRound(data[i], ndim - 1, n)]

RECURSIVE MapScale(_, _, _)
MapScale(data, ndim, k) ==
    IF ndim = 0 THEN data * k
    ELSE [i \in DOMAIN data |-> MapScale(data[i], ndim - 1, k)]

\* np.round(arr, ndigits) on a floating array (an integer array is returned
\* as it is for ndigits >= 0)
NpRound(arr, ndigits) ==
    IF arr.dtype = "float"
    THEN [arr EXCEPT !.data = MapRound(arr.data, arr.ndim, ndigits)]
    ELSE arr

\* np.issubdtype(arr.dtype, np.floating)
IsFloating(dtype) == dtype = "float"

\* np.round(np.asarray(arr, dtype=float), ndigits): no dtype test
RoundFloatArrayAsFloat(arr, ndigits) ==
    LET a == NpAsarray(arr)
    IN  NpRound([container |-> "ndarray", dtype |-> "float", ndim |-> a.ndim,
                 data |-> IF IsFloating(a.dtype) THEN a.data
                          ELSE MapScale(a.data, a.ndim, Pow10(Digits))], ndigits)
\* round_float_array(arr, ndigits)
RoundFloatArray(arr, ndigits) ==
    LET a == NpAsarray(arr)
    IN  IF IsFloating(a.dtype) THEN NpRound(a, ndigits) ELSE a

\* deparse_xarray_variable(variable)
DeparseXarrayVariable(variable) ==
    [dims |-> variable.dims, data |-> RoundFloatArray(variable.data, DefaultNdigits)]

\* a comprehension that walks variables.items() from the last to the first
DeparseXarrayVariablesReversed(variables) ==
    [i \in DOMAIN variables |->
        [name |-> variables[Len(variables) + 1 - i].name,
         val |-> DeparseXarrayVariable(variables[Len(variables) + 1 - i])]]
\* deparse_xarray_variables(variables)
DeparseXarrayVariables(variables) ==
    [i \in DOMAIN variables |->
        [name |-> variables[i].name, val |-> DeparseXarrayVariable(variables[i])]]

\* ------------------------------------------------------------------- text
\* repr of a non-negative integer below 10^k, zero-padded to k digits
RECURSIVE Padded(_, _)
Padded(v, k) == IF k = 0 THEN "" ELSE Padded(v \div 10, k - 1) \o ToString(v % 10)

RECURSIVE StripZeros(_, _)
\* the fraction v of k digits without its trailing zeros, one digit at least
StripZeros(v, k) ==
    IF k > 1 /\ v % 10 = 0 THEN StripZeros(v \div 10, k - 1) ELSE Padded(v, k)

\* repr of one element
ReprElement(v, dtype) ==
    IF dtype = "float"
    THEN LET a == IF v < 0 THEN -v ELSE v
         IN  (IF v < 0 THEN "-" ELSE "") \o ToString(a \div Pow10(Digits)) \o "."
                 \o StripZeros(a % Pow10(Digits), Digits)
    ELSE IF dtype = "object" THEN "datetime.datetime(" \o ToString(v) \o ")"
    ELSE ToString(v)

RECURSIVE Joined(_)
\* the token sequences of ss, separated by commas
Joined(ss) ==
    IF ss = <<>> THEN <<>>
    ELSE IF Len(ss) = 1 THEN ss[1]
    ELSE ss[1] \o <<",">> \o Joined(Tail(ss))

RECURSIVE ReprNested(_, _, _)
ReprNested(data, ndim, dtype) ==
    IF ndim = 0 THEN << ReprElement(data, dtype) >>
    ELSE <<"[">> \o Joined([i \in DOMAIN data |-> ReprNested(data[i], ndim - 1, dtype)])
             \o <<"]">>

\* repr of an ndarray: array([...]) or array([...], dtype=object)
ReprArray(arr) ==
    <<"array", "(">> \o ReprNested(arr.data, arr.ndim, arr.dtype)
        \o (IF arr.dtype = "object" THEN <<",", "dtype=object">> ELSE <<>>) \o <<")">>

\* repr of a str
ReprStr(name) == <<"'", name, "'">>

\* repr of a tuple of names; a 1-tuple ends with a comma
ReprDims(dims) ==
    <<"(">> \o Joined([i \in DOMAIN dims |-> ReprStr(dims[i])])
        \o (IF Len(dims) = 1 THEN <<",">> ELSE <<>>) \o <<")">>

\* repr of the tuple (dims, data)
ReprVariable(val) == <<"(">> \o ReprDims(val.dims) \o <<",">> \o ReprArray(val.data) \o <<")">>

\* repr of a dict name -> (dims, data)
ReprVariables(vars) ==
    <<"{">> \o Joined([i \in DOMAIN vars |->
                          ReprStr(vars[i].name) \o <<":">> \o ReprVariable(vars[i].val)])
        \o <<"}">>

\* xarray_rrepr_template(xarray_type, data, coords); data and coords arrive as
\* their repr
XarrayRreprTemplate(xarray_type, data, coords) ==
    <<xarray_type, "(">> \o data \o <<",", "coords=">> \o coords \o <<")">>

\* code_string.replace("array", "np.array")
StrReplace(text, old, new) ==
    [i \in DOMAIN text |-> IF text[i] = old THEN new ELSE text[i]]

\* ------------------------------------------------------------ collaborators
\* what `ruff format -` prints for code_string: quotes normalised, a final
\* newline (its line breaking is left out)
RuffStdout(code_string) ==
    [i \in 1..(Len(code_string) + 1) |->
        IF i > Len(code_string) THEN "\n"
        ELSE IF code_string[i] = "'" THEN "\"" ELSE code_string[i]]

FormatterOutcomes == {"ok", "parse_error", "io_error", "missing"}
\* the clipboard answers only when it is asked, after a formatter success
ClipboardOutcomes(fmt) == IF fmt = "ok" THEN {"ok", "unavailable"} ELSE {"unused"}

\* subprocess.run(["ruff", "format", "-"], check=False, input=code_string,
\* text=True, capture_output=True): the completed process, by what the
\* formatter does with the text
SubprocessRun(code_string, outcome) ==
    CASE outcome = "ok" ->
            [spawned |-> TRUE, returncode |-> 0, stdout |-> RuffStdout(code_string),
             stderr |-> ""]
      [] outcome = "parse_error" ->
            [spawned |-> TRUE, returncode |-> 2, stdout |-> <<>>,
             stderr |-> "error: Failed to parse"]
      [] outcome = "io_error" ->
            [spawned |-> TRUE, returncode |-> 1, stdout |-> <<>>,
             stderr |-> "error: Failed to format"]
      [] OTHER ->
            [spawned |-> FALSE, returncode |-> 0, stdout |-> <<>>, stderr |-> ""]

\* the return code is not looked at
RuffFormatUnchecked(result) ==
    IF ~result.spawned THEN Raise("FileNotFoundError", "ruff") ELSE Ok(result.stdout)
\* ruff_format(code_string), given the completed process
RuffFormat(result) ==
    IF ~result.spawned THEN Raise("FileNotFoundError", "ruff")
    ELSE IF result.returncode # 0 THEN Raise("RuntimeError", result.stderr)
    ELSE Ok(result.stdout)

\* pyperclip.copy(text): puts text on the clipboard, or raises when the
\* platform offers no copy mechanism
PyperclipCopy(text, outcome) ==
    IF outcome = "ok" THEN Ok(text) ELSE Raise("PyperclipException", "no copy mechanism")

\* -------------------------------------------------------------- entry point
\* a call that ended at `ret`, having run the formatter processes `procs` and
\* handed the texts `copies` to the clipboard
Outcome(ret, procs, copies) == [ret |-> ret, procs |-> procs, copies |-> copies]

\* rrepr, lines 229-231, given the completed formatter process: format,
\* copy, return
RreprFinish(result, clip) ==
    LET ruff_formatted_code_string == RuffFormat(result)
        procs == IF result.spawned THEN <<result>> ELSE <<>>
    IN  IF ~ruff_formatted_code_string.ok
        THEN Outcome(ruff_formatted_code_string, procs, <<>>)
        ELSE LET copy == PyperclipCopy(ruff_formatted_code_string.val, clip)
                 copies == << ruff_formatted_code_string.val >>
             IN  IF ~copy.ok THEN Outcome(copy, procs, copies)
                 ELSE Outcome(ruff_formatted_code_string, procs, copies)

\* rrepr, lines 227-231: template, replace, format, copy, return
RreprRender(xarray_type, data_expr, coords_expr, fmt, clip) ==
    LET code_string == XarrayRreprTemplate(xarray_type, data_expr, coords_expr)
        code_string_with_numpy_import == StrReplace(code_string, "array", "np.array")
    IN  RreprFinish(SubprocessRun(code_string_with_numpy_import, fmt), clip)

\* rrepr, lines 217-231, given the sampled object
RreprDeparse(obj, sampled, fmt, clip) ==
    IF ~sampled.ok THEN Outcome(sampled, <<>>, <<>>)
    ELSE IF "to_dict" \notin obj.attrs
    THEN Outcome(Raise("AttributeError", "to_dict"), <<>>, <<>>)
    ELSE IF "coords" \notin obj.attrs
    THEN Outcome(Raise("KeyError", "coords"), <<>>, <<>>)
    ELSE LET resampled_obj == ToDict(sampled.val)
             coords_expr == DeparseXarrayVariables(resampled_obj.coords)
         IN  IF obj.kind = "DataArray"
             THEN RreprRender("xr.DataArray",
                              ReprArray(RoundFloatArray(resampled_obj.data, DefaultNdigits)),
                              ReprVariables(coords_expr), fmt, clip)
             ELSE IF obj.kind = "Dataset"
             THEN RreprRender("xr.Dataset",
                              ReprVariables(DeparseXarrayVariables(resampled_obj.data_vars)),
                              ReprVariables(coords_expr), fmt, clip)
             ELSE Outcome(Raise("TypeError", "Unknown data type"), <<>>, <<>>)

\* rrepr(obj, size, seed)
Rrepr(obj, size, seed, entropy, fmt, clip) ==
    RreprDeparse(obj, RandomSampleXarrayObj(obj, size, seed, entropy), fmt, clip)

\* the source object once a sampling call is over
SourceAfterSample(obj, size, seed, entropy) ==
    LET indices == RandomSampleDims(obj, size, seed, entropy)
    IN  IF indices.ok /\ "isel" \in obj.attrs
        THEN SourceAfterIsel(obj, Zip(SizesKeys(obj), indices.val))
        ELSE obj

\* ------------------------------------------------------------ state machine
VARIABLES
    obj,      \* the caller's source object
    op,       \* the function called last ("" before the first call)
    args,     \* its arguments
    ret,      \* its result: a value returned or an exception raised
    procs,    \* the formatter processes the call ran, in order
    copies,   \* the texts the call handed to the clipboard, in order
    memo      \* the first call with a seed that returned, <<[op, args, val, again]>>;
              \* again: the same call was made once more and returned

vars == <<obj, op, args, ret, procs, copies, memo>>

Sizes == 1..MaxSize
\* seed: None or an integer
Seeds == {<<>>, <<0>>, <<42>>}
\* what the operating system's entropy pool may hand out
Entropy == {0, 1}

\* payloads handed to round_float_array on its own
FloatValues == {-15, 5, 25, 35, 27979, 28670}
ScalarPayloads ==
    {[container |-> "list", dtype |-> "float", ndim |-> 0, data |-> v * Pow10(Digits - 2)] :
        v \in FloatValues}
VectorPayloads ==
    {[container |-> c, dtype |-> "float", ndim |-> 1,
      data |-> <<v * Pow10(Digits - 2), 28670 * Pow10(Digits - 2)>>] :
        c \in {"list", "ndarray"}, v \in FloatValues}
    \cup {[container |-> "list", dtype |-> t, ndim |-> 1, data |-> <<v, 1>>] :
            t \in {"int", "bool", "object"}, v \in {0, 1}}
MatrixPayloads ==
    {[container |-> "ndarray", dtype |-> "int", ndim |-> 2, data |-> <<<<13, 11>>, <<3, 125>>>>],
     [container |-> "list", dtype |-> "float", ndim |-> 2,
      data |-> <<<<27290 * Pow10(Digits - 2), 27979 * Pow10(Digits - 2)>>,
                 <<-45 * Pow10(Digits - 2), 55 * Pow10(Digits - 2)>>>>]}
Ndigits == 0..Digits

Init ==
    /\ obj \in Objects
    /\ op = ""
    /\ args = <<>>
    /\ ret = Ok(<<>>)
    /\ procs = <<>>
    /\ copies = <<>>
    /\ memo = <<>>

\* result = random_sample_dims(obj, size, seed)
CallRandomSampleDims ==
    \E size \in Sizes, seed \in Seeds, entropy \in Entropy :
        LET r == RandomSampleDims(obj, size, seed, entropy)
            a == [size |-> size, seed |-> seed]
        IN  /\ op' = "random_sample_dims"
            /\ args' = a
            /\ ret' = r
            /\ procs' = <<>>
            /\ copies' = <<>>
            /\ UNCHANGED obj

\* result = random_sample_xarray_obj(obj, size, seed)
CallRandomSampleXarrayObj ==
    \E size \in Sizes, seed \in Seeds, entropy \in Entropy :
        /\ op' = "random_sample_xarray_obj"
        /\ args' = [size |-> size, seed |-> seed]
        /\ ret' = RandomSampleXarrayObj(obj, size, seed, entropy)
        /\ obj' = SourceAfterSample(obj, size, seed, entropy)
        /\ procs' = <<>>
        /\ copies' = <<>>

\* result = rrepr(obj, size, seed)
CallRrepr ==
    \E size \in Sizes, seed \in Seeds, entropy \in Entropy, fmt \in FormatterOutcomes :
      \E clip \in ClipboardOutcomes(fmt) :
      \E o \in {Rrepr(obj, size, seed, entropy, fmt, clip)} :
        LET a == [size |-> size, seed |-> seed]
        IN  /\ op' = "rrepr"
            /\ args' = a
            /\ ret' = o.ret
            /\ procs' = o.procs
            /\ copies' = o.copies
            /\ obj' = SourceAfterSample(obj, size, seed, entropy)

\* result = round_float_array(payload, ndigits)
RoundCall(payload, ndigits) ==
    /\ op' = "round_float_array"
    /\ args' = [payload |-> payload, ndigits |-> ndigits]
    /\ ret' = Ok(RoundFloatArray(payload, ndigits))
    /\ procs' = <<>>
    /\ copies' = <<>>
    /\ UNCHANGED obj

CallRoundFloatArray ==
    \E ndigits \in Ndigits :
        \/ \E payload \in ScalarPayloads : RoundCall(payload, ndigits)
        \/ \E payload \in VectorPayloads : RoundCall(payload, ndigits)
        \/ \E payload \in MatrixPayloads : RoundCall(payload, ndigits)

\* the mapping of variable records a caller takes from to_dict(): of the
\* object itself (sampled = FALSE) or of a sample of it, its "coords" or its
\* "data_vars"
DictKeys == {"coords", "data_vars"}
VariablesOf(o, key) == IF key = "coords" THEN ToDict(o).coords ELSE ToDict(o).data_vars

\* result = deparse_xarray_variables(variables)
DeparseCall(variables) ==
    /\ op' = "deparse_xarray_variables"
    /\ args' = [variables |-> variables]
    /\ ret' = Ok(DeparseXarrayVariables(variables))
    /\ procs' = <<>>
    /\ copies' = <<>>
    /\ UNCHANGED obj

\* deparse_xarray_variables(obj.to_dict()[key])
CallDeparseXarrayVariables ==
    \E key \in DictKeys :
        /\ "to_dict" \in obj.attrs
        /\ DeparseCall(VariablesOf(obj, key))

\* deparse_xarray_variables(random_sample_xarray_obj(obj, size, seed).to_dict()[key])
CallDeparseSampled ==
    \E key \in DictKeys, size \in Sizes, seed \in Seeds, entropy \in Entropy :
        LET sampled == RandomSampleXarrayObj(obj, size, seed, entropy)
        IN  /\ sampled.ok
            /\ "to_dict" \in obj.attrs
            /\ DeparseCall(VariablesOf(sampled.val, key))

\* result = deparse_xarray_variable(variable)
DeparseVariableCall(variable) ==
    /\ op' = "deparse_xarray_variable"
    /\ args' = [variable |-> variable]
    /\ ret' = Ok(DeparseXarrayVariable(variable))
    /\ procs' = <<>>
    /\ copies' = <<>>
    /\ UNCHANGED obj

\* deparse_xarray_variable(d[key][name]), d the to_dict() of the object or
\* of a sample of it
CallDeparseXarrayVariable ==
    \E key \in DictKeys, size \in Sizes, seed \in Seeds, entropy \in Entropy, whole \in BOOLEAN :
        LET source == IF whole THEN Ok(obj) ELSE RandomSampleXarrayObj(obj, size, seed, entropy)
        IN  /\ source.ok
            /\ "to_dict" \in obj.attrs
            /\ \E i \in DOMAIN VariablesOf(source.val, key) :
                  DeparseVariableCall(VariablesOf(source.val, key)[i])

\* a call nobody keeps a record of
Plain(Call) == Call /\ UNCHANGED memo

\* a call whose result the caller keeps, to compare later calls with: the
\* first seeded call that returned is remembered
Observed(Call) ==
    /\ Call
    /\ memo' = IF args'.seed = <<>> \/ ~ret'.ok THEN memo
               ELSE IF memo = <<>>
               THEN << [op |-> op', args |-> args', val |-> ret'.val, again |-> FALSE] >>
               ELSE IF memo[1].op = op' /\ memo[1].args = args'
               THEN << [memo[1] EXCEPT !.again = TRUE] >>
               ELSE memo

\* the sampler on its own
Next ==
    \/ Plain(CallRandomSampleDims)
    \/ Plain(CallRandomSampleXarrayObj)

Spec == Init /\ [][Next]_vars

\* the three sampling entry points
NextRrepr ==
    \/ Plain(CallRandomSampleDims)
    \/ Plain(CallRandomSampleXarrayObj)
    \/ Plain(CallRrepr)

SpecRrepr == Init /\ [][NextRrepr]_vars

\* calls repeated with the same seed
NextRepeat ==
    \/ Observed(CallRandomSampleDims)
    \/ Observed(CallRrepr)

SpecRepeat == Init /\ [][NextRepeat]_vars

\* the rounding helper on its own
NextRound == Plain(CallRoundFloatArray)

SpecRound == Init /\ [][NextRound]_vars

\* the deparsing helpers on their own
NextDeparse ==
    \/ Plain(CallDeparseXarrayVariables)
    \/ Plain(CallDeparseSampled)
    \/ Plain(CallDeparseXarrayVariable)

SpecDeparse == Init /\ [][NextDeparse]_vars

\* ------------------------------------------------------------------ claims
IsXarray == obj.kind \in XarrayKinds
Sampling == {"random_sample_dims", "random_sample_xarray_obj"}
Oversized == \E d \in DOMAIN obj.sizes : args.size > obj.sizes[d].n
NonEmpty == \A d \in DOMAIN obj.sizes : obj.sizes[d].n >= 1
HasRepeat(row) == \E j, k \in DOMAIN row : j # k /\ row[j] = row[k]

RECURSIVE Shape(_, _)
\* the extents of a nested payload of depth ndim
Shape(data, ndim) ==
    IF ndim = 0 THEN <<>>
    ELSE <<Len(data)>> \o (IF Len(data) = 0 THEN <<>> ELSE Shape(data[1], ndim - 1))

\* C1: a call with a seed returns what the first call with the same arguments
\* returned, whatever calls (seeded or not) were made in between: the index
\* map of random_sample_dims, the text of rrepr.
C1_DeterminismUnderSeed ==
    (memo # <<>> /\ op = memo[1].op /\ args = memo[1].args /\ ret.ok)
        => ret.val = memo[1].val

\* an rrepr call with a seed was repeated and returned its text again
C1_Witness ==
    /\ memo # <<>>
    /\ memo[1].again
    /\ memo[1].op = "rrepr"
    /\ op = "rrepr"
    /\ args = memo[1].args
    /\ ret.ok
    /\ Len(ret.val) > 0

C5_NonMutation == [][obj' = obj]_vars

\* rrepr has sampled, rendered and then failed in the formatter
C5_Witness ==
    /\ op = "rrepr"
    /\ IsXarray
    /\ ~ret.ok
    /\ procs # <<>>

\* C6: a formatter process that ends with a non-zero status makes rrepr raise
\* RuntimeError carrying the process's stderr unchanged; nothing is returned,
\* the formatter is run only once and the clipboard is not written. When the
\* process ends with status 0 the text rrepr returns is its stdout.
C6_FormatterFailureIsFatal ==
    op = "rrepr"
        => /\ Len(procs) <= 1
           /\ (procs # <<>> /\ procs[1].returncode # 0)
                => /\ ~ret.ok
                   /\ ret.err = [type |-> "RuntimeError", msg |-> procs[1].stderr]
                   /\ ret.val = <<>>
                   /\ copies = <<>>
           /\ (procs # <<>> /\ procs[1].returncode = 0 /\ ret.ok)
                => ret.val = procs[1].stdout

\* the formatter failed to parse its input and rrepr raised its message
C6_Witness ==
    /\ op = "rrepr"
    /\ procs # <<>>
    /\ procs[1].returncode = 2
    /\ ~ret.ok
    /\ ret.err.msg = "error: Failed to parse"

\* C7: when sampling, rendering and formatting succeed, rrepr returns the
\* formatted text whether or not the clipboard accepts it.
C7_ClipboardBestEffort ==
    (op = "rrepr" /\ procs # <<>> /\ procs[1].returncode = 0)
        => (ret.ok /\ ret.val = procs[1].stdout)

\* C8: an object that is neither a DataArray nor a Dataset makes rrepr raise
\* TypeError("Unknown data type") and nothing else, with neither formatter
\* nor clipboard invoked; a DataArray is rendered under "xr.DataArray", a
\* Dataset under "xr.Dataset".
C8_UnsupportedKind ==
    op = "rrepr"
        => /\ ~IsXarray
                => /\ ~ret.ok
                   /\ ret.err = [type |-> "TypeError", msg |-> "Unknown data type"]
                   /\ procs = <<>>
                   /\ copies = <<>>
           /\ (IsXarray /\ ret.ok)
                => ret.val[1] = (IF obj.kind = "DataArray" THEN "xr.DataArray" ELSE "xr.Dataset")

RECURSIVE At(_, _)
\* the element of a nested payload at a 0-based position
At(data, pos) == IF pos = <<>> THEN data ELSE At(data[Head(pos) + 1], Tail(pos))

\* the place of dimension d in obj.sizes
DimIndex(o, d) == CHOOSE i \in DOMAIN o.sizes : o.sizes[i].name = d

\* res is src indexed orthogonally by idx (one row per dimension of o)
OuterSelected(o, res, src, idx, size) ==
    \A pos \in [DOMAIN src.dims -> 0..(size - 1)] :
        At(res.data, pos)
            = At(src.data, [i \in DOMAIN src.dims |-> idx[DimIndex(o, src.dims[i])][pos[i] + 1]])

\* C9: the object random_sample_xarray_obj returns is the source indexed along
\* all dimensions at once: result[k1..kn] = source[idx[d1][k1]..idx[dn][kn]]
\* for every variable and coordinate, idx being the index map of the call;
\* the 5x5 grid 1..25 indexed by [2,0,4] and [2,0,3] gives
\* [[13,11,14],[3,1,4],[23,21,24]] with coordinates a=[2,0,4], b=[2,0,3].
C9_OrthogonalSelection ==
    /\ LET r == Isel(Grid(5, 5), Zip(<<"a", "b">>, << <<2, 0, 4>>, <<2, 0, 3>> >>))
       IN  /\ r.vars[1].data = << <<13, 11, 14>>, <<3, 1, 4>>, <<23, 21, 24>> >>
           /\ r.coords[1].data = <<2, 0, 4>>
           /\ r.coords[2].data = <<2, 0, 3>>
    /\ (op = "random_sample_xarray_obj" /\ IsXarray /\ ret.ok)
        => \E entropy \in Entropy :
              LET idx == Randint(MT19937(SeedSequence(args.seed, entropy)),
                                 SizesValues(obj), args.size)
              IN  /\ \A i \in DOMAIN obj.vars :
                        /\ ret.val.vars[i].dims = obj.vars[i].dims
                        /\ OuterSelected(obj, ret.val.vars[i], obj.vars[i], idx, args.size)
                  /\ \A i \in DOMAIN obj.coords :
                        /\ ret.val.coords[i].dims = obj.coords[i].dims
                        /\ OuterSelected(obj, ret.val.coords[i], obj.coords[i], idx, args.size)

\* a two-dimensional object was sampled into different data
C9_Witness ==
    /\ op = "random_sample_xarray_obj"
    /\ IsXarray
    /\ ret.ok
    /\ Len(obj.sizes) = 2
    /\ args.size = 2
    /\ \E i \in DOMAIN obj.vars :
          /\ Len(obj.vars[i].dims) = 2
          /\ HasRepeat(ret.val.coords[1].data)
          /\ At(ret.val.vars[i].data, <<0, 1>>) # At(obj.vars[i].data, <<0, 1>>)

\* C10: rounding twice with the same digit count gives what rounding once
\* gives; a payload whose elements are not floating-point comes back with the
\* same elements, element type and shape.
C10_RoundingIdempotent ==
    op = "round_float_array"
        => /\ RoundFloatArray(ret.val, args.ndigits) = ret.val
           /\ ~IsFloating(args.payload.dtype)
                => /\ ret.val.dtype = args.payload.dtype
                   /\ ret.val.ndim = args.payload.ndim
                   /\ ret.val.data = args.payload.data

\* [279.79, 286.7] rounded to one digit is [279.8, 286.7]
C10_Witness ==
    /\ op = "round_float_array"
    /\ args.ndigits = 1
    /\ args.payload.ndim = 1
    /\ args.payload.dtype = "float"
    /\ args.payload.data = <<27979 * Pow10(Digits - 2), 28670 * Pow10(Digits - 2)>>
    /\ ret.val.data = <<27980 * Pow10(Digits - 2), 28670 * Pow10(Digits - 2)>>

\* C11: deparse_xarray_variables returns a mapping with the names of its
\* input, in the input's order; each value is the pair (dims, data) whose dims
\* are the input record's dims and whose data has the shape of the input
\* record's data.
C11_StructuralFidelity ==
    op = "deparse_xarray_variables"
        => /\ Len(ret.val) = Len(args.variables)
           /\ \A i \in DOMAIN args.variables :
                 /\ ret.val[i].name = args.variables[i].name
                 /\ ret.val[i].val.dims = args.variables[i].dims
                 /\ ret.val[i].val.data.ndim = args.variables[i].data.ndim
                 /\ Shape(ret.val[i].val.data.data, ret.val[i].val.data.ndim)
                       = Shape(args.variables[i].data.data, args.variables[i].data.ndim)

\* a mapping of two differently named variables was deparsed and the data of
\* the first came back rounded
C11_Witness ==
    /\ op = "deparse_xarray_variables"
    /\ Len(args.variables) = 2
    /\ args.variables[1].name # args.variables[2].name
    /\ Len(args.variables[1].dims) = 2
    /\ Len(args.variables[2].dims) = 1
    /\ ret.val[1].name = args.variables[1].name
    /\ ret.val[1].val.data.data # args.variables[1].data.data

\* the text xarray_rrepr_template produces in rrepr for the sampled object
TemplateText(o, sampled) ==
    LET resampled_obj == ToDict(sampled)
        coords_expr == ReprVariables(DeparseXarrayVariables(resampled_obj.coords))
    IN  IF o.kind = "DataArray"
        THEN XarrayRreprTemplate("xr.DataArray",
                 ReprArray(RoundFloatArray(resampled_obj.data, DefaultNdigits)), coords_expr)
        ELSE XarrayRreprTemplate("xr.Dataset",
                 ReprVariables(DeparseXarrayVariables(resampled_obj.data_vars)), coords_expr)

\* position i of text opens an array literal: array(
IsArrayLiteral(text, i) == text[i] = "array" /\ i < Len(text) /\ text[i + 1] = "("

C13_IndexMapWellFormed ==
    /\ (op = "random_sample_dims" /\ ret.ok)
         => /\ Len(ret.val) = Len(obj.sizes)
            /\ \A d \in DOMAIN obj.sizes :
                  /\ Len(ret.val[d]) = args.size
                  /\ \A j \in DOMAIN ret.val[d] : ret.val[d][j] \in 0..(obj.sizes[d].n - 1)
    /\ (op = "random_sample_xarray_obj" /\ IsXarray /\ ret.ok)
         => \E entropy \in Entropy :
               LET indices == RandomSampleDims(obj, args.size, args.seed, entropy)
                   indices_dict == Zip(SizesKeys(obj), indices.val)
               IN  /\ indices.ok
                   /\ ret.val = Isel(obj, indices_dict)
                   /\ Len(indices_dict) = Len(obj.sizes)
                   /\ \A i \in DOMAIN obj.sizes :
                         /\ indices_dict[i].name = obj.sizes[i].name
                         /\ Len(indices_dict[i].idx) = args.size
                         /\ \A j \in DOMAIN indices_dict[i].idx :
                               indices_dict[i].idx[j] \in 0..(obj.sizes[i].n - 1)

\* an index map for the dimensions (time, lat), of extents 1 and above 1:
\* the row of time is all 0, the row of lat reaches the last index of lat
C13_Witness ==
    /\ op = "random_sample_dims"
    /\ ret.ok
    /\ SizesKeys(obj) = <<"time", "lat">>
    /\ obj.sizes[1].n = 1
    /\ obj.sizes[2].n > 1
    /\ args.size = MaxSize
    /\ \A j \in DOMAIN ret.val[1] : ret.val[1][j] = 0
    /\ \E j \in DOMAIN ret.val[2] : ret.val[2][j] = obj.sizes[2].n - 1
====
